---- MODULE Spec2Model ----
(***************************************************************************)
(* Model of the two plotting scripts of acid_verify:                       *)
(*   generate_graph.py          generate_throughput_linegraph  ("lin...")   *)
(*   generate_log_linegraph.py  generate_log_linegraph         ("log...")   *)
(* Both read measurements.csv, add the throughput column, coerce the       *)
(* verified column to bool, split the table in two and plot num_keys       *)
(* against throughput.  The two runs are independent processes over the    *)
(* same input file; their steps interleave freely.                         *)
(*                                                                         *)
(* pandas is modelled by what it does on the cells the model feeds it      *)
(* (classic NumPy-backed dtypes): read_csv's column type inference,        *)
(* Series arithmetic (integer / 0 gives inf or nan, no exception),         *)
(* astype(bool) (element truthiness) and boolean-mask filtering (keeps     *)
(* the index labels and the row order).  Floating point values are exact   *)
(* reduced fractions, or inf, or nan.                                      *)
(***************************************************************************)
EXTENDS Integers, Sequences, FiniteSets, TLC

\* Largest number of data rows in the input file.
MaxRows == 2

FilePath == "measurements.csv"

Columns == {"num_txns", "elapsed_ms", "num_keys", "verified"}

\* (num_txns, elapsed_ms, num_keys) of the data rows the input may hold.
Measurements == { <<100, 50, 20>>, <<200, 100, 10>>, <<100, 0, 10>> }

\* Raw text of a verified cell; "" is an empty cell.
VerifiedCells == {"True", "False", "0", "1", ""}

SeqsUpTo(S, n) == UNION { [1..k -> S] : k \in 0..n }

Range(s) == { s[i] : i \in DOMAIN s }

Restrict(f, S) == [c \in S |-> f[c]]

RawRows ==
    { [num_txns |-> m[1], elapsed_ms |-> m[2], num_keys |-> m[3], verified |-> v] :
        m \in Measurements, v \in VerifiedCells }

\* The header of a CSV file: all four columns, or one of them missing.
Headers == {Columns} \cup { Columns \ {c} : c \in Columns }

\* What measurements.csv can be when a script starts.
InputFiles ==
    { [kind |-> k, header |-> {}, rows |-> << >>] : k \in {"absent", "empty", "malformed"} }
    \cup
    { [kind |-> "csv", header |-> h,
       rows |-> [i \in DOMAIN rs |-> Restrict(rs[i], h)]] :
        h \in Headers, rs \in SeqsUpTo(RawRows, MaxRows) }

VARIABLES
    file,       \* the content of measurements.csv (never written by the scripts)
    files,      \* the output files present in the working directory
    linPc, linDf, linTrue, linFalse, linFig, linOut,
    logPc, logDf, logTrue, logFalse, logFig, logOut, logExc

linVars == <<linPc, linDf, linTrue, linFalse, linFig, linOut>>
logVars == <<logPc, logDf, logTrue, logFalse, logFig, logOut, logExc>>
vars == <<file, files, linVars, logVars>>

-----------------------------------------------------------------------------
(* Floating point results of Series division *)

RECURSIVE GCD(_, _)
GCD(a, b) == IF b = 0 THEN a ELSE GCD(b, a % b)

Abs(a) == IF a < 0 THEN -a ELSE a

Inf == [kind |-> "inf", num |-> 1, den |-> 0]
NegInf == [kind |-> "inf", num |-> -1, den |-> 0]
NaN == [kind |-> "nan", num |-> 0, den |-> 0]

Finite(p, q) ==
    LET g == GCD(Abs(p), Abs(q))
        s == IF q < 0 THEN -1 ELSE 1
    IN  [kind |-> "finite", num |-> s * (p \div g), den |-> s * (q \div g)]

\* int64 Series / int64 Series: true division, elementwise; x/0 is +-inf and
\* 0/0 is nan (no ZeroDivisionError).
Divide(a, b) ==
    IF b = 0
    THEN (IF a = 0 THEN NaN ELSE IF a > 0 THEN Inf ELSE NegInf)
    ELSE Finite(a, b)

-----------------------------------------------------------------------------
(* pandas.read_csv *)

NoException == [type |-> "none", text |-> ""]

Raised(e) == e.type # "none"

KeyError(col) == [type |-> "KeyError", text |-> col]

\* Mutant of ReadCsvError: a file holding only the header is taken for an
\* empty file.
ReadCsvErrorHeaderOnly(f) ==
    CASE f.kind = "absent" ->
            [type |-> "FileNotFoundError", text |-> "No such file or directory"]
      [] f.kind = "empty" \/ (f.kind = "csv" /\ Len(f.rows) = 0) ->
            [type |-> "EmptyDataError", text |-> "No columns to parse from file"]
      [] f.kind = "malformed" ->
            [type |-> "ParserError", text |-> "Error tokenizing data"]
      [] OTHER -> NoException

\* The exception read_csv raises for a file, if any.
ReadCsvError(f) ==
    CASE f.kind = "absent" ->
            [type |-> "FileNotFoundError", text |-> "No such file or directory"]
      [] f.kind = "empty" ->
            [type |-> "EmptyDataError", text |-> "No columns to parse from file"]
      [] f.kind = "malformed" ->
            [type |-> "ParserError", text |-> "Error tokenizing data"]
      [] OTHER -> NoException

\* Integer literals and their values; the default true_values / false_values.
IntOf == ("0" :> 0) @@ ("1" :> 1) @@ ("2" :> 2)
TrueValues == {"True", "TRUE", "true"}
FalseValues == {"False", "FALSE", "false"}

\* The element kind read_csv gives the non-empty cells of a column: a column
\* is numeric when every non-empty cell is a number (int64 without empty
\* cells, float64 with them), boolean when every non-empty cell is a boolean
\* literal, and otherwise stays a column of strings.  Empty cells are NaN.
ColumnKind(cells) ==
    LET present == { cells[i] : i \in { j \in DOMAIN cells : cells[j] # "" } }
        hasNA == \E i \in DOMAIN cells : cells[i] = ""
    IN  IF present \subseteq DOMAIN IntOf
        THEN (IF hasNA THEN "float" ELSE "int")
        ELSE IF present \subseteq (TrueValues \cup FalseValues)
        THEN "bool"
        ELSE "str"

ParseColumn(cells) ==
    [i \in DOMAIN cells |->
        IF cells[i] = ""
        THEN [kind |-> "nan", raw |-> ""]
        ELSE [kind |-> ColumnKind(cells), raw |-> cells[i]]]

EmptyFrame == [cols |-> {}, index |-> << >>, rows |-> << >>]

\* The DataFrame read_csv returns for a well-formed file: a RangeIndex, the
\* header's columns, numeric columns as int64, verified as inferred.
ReadCsv(f) ==
    LET n == Len(f.rows)
        parsed == IF "verified" \in f.header
                  THEN ParseColumn([i \in 1..n |-> f.rows[i].verified])
                  ELSE << >>
    IN  [cols |-> f.header,
         index |-> [i \in 1..n |-> i - 1],
         rows |-> [i \in 1..n |->
                     [c \in f.header |->
                        IF c = "verified" THEN parsed[i] ELSE f.rows[i][c]]]]

\* Series.astype(bool), elementwise: numbers are true when non-zero (NaN is
\* non-zero), booleans stay, and any other object is taken by its Python
\* truthiness (a string is true when it is not empty).
AstypeBool(v) ==
    CASE v.kind \in {"int", "float"} -> IntOf[v.raw] # 0
      [] v.kind = "nan" -> TRUE
      [] v.kind = "bool" -> v.raw \in TrueValues
      [] OTHER -> v.raw # ""

\* df[mask]: the rows whose mask is true, with their index labels, in order.
RECURSIVE Positions(_, _, _)
Positions(df, want, i) ==
    IF i > Len(df.rows) THEN << >>
    ELSE (IF df.rows[i].verified = want THEN <<i>> ELSE << >>)
         \o Positions(df, want, i + 1)

Filter(df, want) ==
    LET ps == Positions(df, want, 1)
    IN  [cols |-> df.cols,
         index |-> [j \in DOMAIN ps |-> df.index[ps[j]]],
         rows |-> [j \in DOMAIN ps |-> df.rows[ps[j]]]]

(* matplotlib *)

NoFigure ==
    [opened |-> FALSE, yscale |-> "linear", lines |-> << >>,
     ylabel |-> "", grid |-> "none"]

Line(part, label, marker, linestyle) ==
    [label |-> label, marker |-> marker, linestyle |-> linestyle,
     x |-> [i \in DOMAIN part.rows |-> part.rows[i].num_keys],
     y |-> [i \in DOMAIN part.rows |-> part.rows[i].throughput]]

NotFoundMessage == <<"Error: The file '", FilePath, "' was not found.">>

-----------------------------------------------------------------------------

Init ==
    /\ file \in InputFiles
    /\ files = {}
    /\ linPc = "load" /\ linDf = EmptyFrame /\ linTrue = EmptyFrame
    /\ linFalse = EmptyFrame /\ linFig = NoFigure /\ linOut = << >>
    /\ logPc = "load" /\ logDf = EmptyFrame /\ logTrue = EmptyFrame
    /\ logFalse = EmptyFrame /\ logFig = NoFigure /\ logOut = << >>
    /\ logExc = NoException

-----------------------------------------------------------------------------
(* generate_graph.py: generate_throughput_linegraph *)

\* The exception lines 19 and 22 raise for a table, if any: a column they
\* subscript is missing (str(KeyError) is the quoted column name).
LinMetricError(df) ==
    IF "num_txns" \notin df.cols THEN KeyError("num_txns")
    ELSE IF "elapsed_ms" \notin df.cols THEN KeyError("elapsed_ms")
    ELSE IF "verified" \notin df.cols THEN KeyError("verified")
    ELSE NoException

\* Mutant of LinMetricFrame: the factor 1000 is forgotten.
LinMetricFrameUnscaled(df) ==
    IF {"num_txns", "elapsed_ms"} \subseteq df.cols
    THEN [df EXCEPT
            !.cols = @ \cup {"throughput"},
            !.rows = [i \in DOMAIN df.rows |->
                [c \in df.cols \cup {"throughput"} |->
                    IF c = "throughput"
                    THEN Divide(df.rows[i].num_txns, df.rows[i].elapsed_ms)
                    ELSE IF c = "verified" THEN AstypeBool(df.rows[i].verified)
                    ELSE df.rows[i][c]]]]
    ELSE df

\* The table after lines 19 and 22: throughput added to every row, and then
\* verified replaced by its astype(bool) (line 22 raises after line 19 has
\* assigned when verified is missing).
LinMetricFrame(df) ==
    IF {"num_txns", "elapsed_ms"} \subseteq df.cols
    THEN [df EXCEPT
            !.cols = @ \cup {"throughput"},
            !.rows = [i \in DOMAIN df.rows |->
                [c \in df.cols \cup {"throughput"} |->
                    IF c = "throughput"
                    THEN Divide(df.rows[i].num_txns * 1000, df.rows[i].elapsed_ms)
                    ELSE IF c = "verified" THEN AstypeBool(df.rows[i].verified)
                    ELSE df.rows[i][c]]]]
    ELSE df

LinPartitionTrue(df) == Filter(df, TRUE)

LinPartitionFalse(df) == Filter(df, FALSE)

\* Mutant of LinLines: each partition is sorted by num_keys before plotting.
RECURSIVE SortByKeys(_)
SortByKeys(rows) ==
    IF Len(rows) = 0 THEN << >>
    ELSE LET m == CHOOSE i \in DOMAIN rows :
                      \A j \in DOMAIN rows :
                          \/ rows[i].num_keys < rows[j].num_keys
                          \/ (rows[i].num_keys = rows[j].num_keys /\ i <= j)
             rest == [k \in 1..(Len(rows) - 1) |-> IF k < m THEN rows[k] ELSE rows[k + 1]]
         IN  <<rows[m]>> \o SortByKeys(rest)

LinLinesSorted(dfTrue, dfFalse) ==
    << Line([dfTrue EXCEPT !.rows = SortByKeys(@)], "Verified = True", "o", "-"),
       Line([dfFalse EXCEPT !.rows = SortByKeys(@)], "Verified = False", "o", "-") >>

\* The two plt.plot calls, in call order.
LinLines(dfTrue, dfFalse) ==
    << Line(dfTrue, "Verified = True", "o", "-"),
       Line(dfFalse, "Verified = False", "o", "-") >>

\* Mutant of LinExcept: the FileNotFoundError clause is missing.
LinExceptGenericOnly(e) == <<"An error occurred: ", e.text>>

\* The except clauses: what the run prints for a raised exception.
LinExcept(e) ==
    IF e.type = "FileNotFoundError"
    THEN NotFoundMessage
    ELSE <<"An error occurred: ", e.text>>

LinLoad ==
    /\ linPc = "load"
    /\ LET e == ReadCsvError(file)
       IN  IF Raised(e)
           THEN /\ linOut' = Append(linOut, LinExcept(e))
                /\ linPc' = "returned"
                /\ UNCHANGED linDf
           ELSE /\ linDf' = ReadCsv(file)
                /\ linPc' = "metric"
                /\ UNCHANGED linOut
    /\ UNCHANGED <<file, files, linTrue, linFalse, linFig, logVars>>

LinMetric ==
    /\ linPc = "metric"
    /\ linDf' = LinMetricFrame(linDf)
    /\ LET e == LinMetricError(linDf)
       IN  IF Raised(e)
           THEN /\ linOut' = Append(linOut, LinExcept(e))
                /\ linPc' = "returned"
           ELSE /\ linPc' = "partition"
                /\ UNCHANGED linOut
    /\ UNCHANGED <<file, files, linTrue, linFalse, linFig, logVars>>

LinPartition ==
    /\ linPc = "partition"
    /\ linFig' = [linFig EXCEPT !.opened = TRUE]
    /\ linTrue' = LinPartitionTrue(linDf)
    /\ linFalse' = LinPartitionFalse(linDf)
    /\ linPc' = "plot"
    /\ UNCHANGED <<file, files, linDf, linOut, logVars>>

LinPlot ==
    /\ linPc = "plot"
    /\ IF "num_keys" \notin linTrue.cols
       THEN /\ linOut' = Append(linOut, LinExcept(KeyError("num_keys")))
            /\ linPc' = "returned"
            /\ UNCHANGED linFig
       ELSE /\ linFig' = [linFig EXCEPT !.lines = LinLines(linTrue, linFalse)]
            /\ linPc' = "save"
            /\ UNCHANGED linOut
    /\ UNCHANGED <<file, files, linDf, linTrue, linFalse, logVars>>

LinSave ==
    /\ linPc = "save"
    /\ linFig' = [linFig EXCEPT !.ylabel = "Throughput (transactions/second)",
                                !.grid = "major"]
    /\ files' = files \cup {"linegraph.png"}
    /\ linOut' = Append(linOut, <<"Line graph saved to ", "linegraph.png">>)
    /\ linPc' = "returned"
    /\ UNCHANGED <<file, linDf, linTrue, linFalse, logVars>>

-----------------------------------------------------------------------------
(* generate_log_linegraph.py: generate_log_linegraph *)

\* Mutant of LogMetricError: the division raises on a zero divisor, as a
\* scalar division would.
LogMetricErrorZeroDivision(df) ==
    IF "num_txns" \notin df.cols THEN KeyError("num_txns")
    ELSE IF "elapsed_ms" \notin df.cols THEN KeyError("elapsed_ms")
    ELSE IF \E i \in DOMAIN df.rows : df.rows[i].elapsed_ms = 0
    THEN [type |-> "ZeroDivisionError", text |-> "division by zero"]
    ELSE IF "verified" \notin df.cols THEN KeyError("verified")
    ELSE NoException

LogMetricError(df) ==
    IF "num_txns" \notin df.cols THEN KeyError("num_txns")
    ELSE IF "elapsed_ms" \notin df.cols THEN KeyError("elapsed_ms")
    ELSE IF "verified" \notin df.cols THEN KeyError("verified")
    ELSE NoException

\* Mutant of LogMetricFrame: rows with elapsed_ms = 0 are dropped before the
\* division.
RECURSIVE NonZeroPositions(_, _)
NonZeroPositions(df, i) ==
    IF i > Len(df.rows) THEN << >>
    ELSE (IF df.rows[i].elapsed_ms # 0 THEN <<i>> ELSE << >>)
         \o NonZeroPositions(df, i + 1)

LogMetricFrameDropZero(df) ==
    IF {"num_txns", "elapsed_ms"} \subseteq df.cols
    THEN LET ps == NonZeroPositions(df, 1)
         IN  [cols |-> df.cols \cup {"throughput"},
              index |-> [j \in DOMAIN ps |-> df.index[ps[j]]],
              rows |-> [j \in DOMAIN ps |->
                [c \in df.cols \cup {"throughput"} |->
                    IF c = "throughput"
                    THEN Divide(df.rows[ps[j]].num_txns * 1000, df.rows[ps[j]].elapsed_ms)
                    ELSE IF c = "verified" THEN AstypeBool(df.rows[ps[j]].verified)
                    ELSE df.rows[ps[j]][c]]]]
    ELSE df

LogMetricFrame(df) ==
    IF {"num_txns", "elapsed_ms"} \subseteq df.cols
    THEN [df EXCEPT
            !.cols = @ \cup {"throughput"},
            !.rows = [i \in DOMAIN df.rows |->
                [c \in df.cols \cup {"throughput"} |->
                    IF c = "throughput"
                    THEN Divide(df.rows[i].num_txns * 1000, df.rows[i].elapsed_ms)
                    ELSE IF c = "verified" THEN AstypeBool(df.rows[i].verified)
                    ELSE df.rows[i][c]]]]
    ELSE df

LogPartitionTrue(df) == Filter(df, TRUE)

\* Mutant of LogPartitionFalse: the mask of the first filter is repeated.
LogPartitionFalseCopied(df) == Filter(df, TRUE)

LogPartitionFalse(df) == Filter(df, FALSE)

\* Mutant of LogLines: the second plot call draws the first partition again.
LogLinesRepeated(dfTrue, dfFalse) ==
    << Line(dfTrue, "Verified = True", "o", "-"),
       Line(dfTrue, "Verified = False", "s", "--") >>

LogLines(dfTrue, dfFalse) ==
    << Line(dfTrue, "Verified = True", "o", "-"),
       Line(dfFalse, "Verified = False", "s", "--") >>

\* Only read_csv is inside a try, and only FileNotFoundError is handled: any
\* other exception leaves the function uncaught.
LogLoad ==
    /\ logPc = "load"
    /\ LET e == ReadCsvError(file)
       IN  IF e.type = "FileNotFoundError"
           THEN /\ logOut' = Append(logOut, NotFoundMessage)
                /\ logPc' = "returned"
                /\ UNCHANGED <<logDf, logExc>>
           ELSE IF Raised(e)
           THEN /\ logExc' = e
                /\ logPc' = "crashed"
                /\ UNCHANGED <<logDf, logOut>>
           ELSE /\ logDf' = ReadCsv(file)
                /\ logPc' = "metric"
                /\ UNCHANGED <<logOut, logExc>>
    /\ UNCHANGED <<file, files, logTrue, logFalse, logFig, linVars>>

LogMetric ==
    /\ logPc = "metric"
    /\ logDf' = LogMetricFrame(logDf)
    /\ LET e == LogMetricError(logDf)
       IN  IF Raised(e)
           THEN /\ logExc' = e
                /\ logPc' = "crashed"
           ELSE /\ logPc' = "partition"
                /\ UNCHANGED logExc
    /\ UNCHANGED <<file, files, logTrue, logFalse, logFig, logOut, linVars>>

LogPartition ==
    /\ logPc = "partition"
    /\ logFig' = [logFig EXCEPT !.opened = TRUE]
    /\ logTrue' = LogPartitionTrue(logDf)
    /\ logFalse' = LogPartitionFalse(logDf)
    /\ logPc' = "plot"
    /\ UNCHANGED <<file, files, logDf, logOut, logExc, linVars>>

LogPlot ==
    /\ logPc = "plot"
    /\ IF "num_keys" \notin logTrue.cols
       THEN /\ logExc' = KeyError("num_keys")
            /\ logPc' = "crashed"
            /\ UNCHANGED logFig
       ELSE /\ logFig' = [logFig EXCEPT !.lines = LogLines(logTrue, logFalse)]
            /\ logPc' = "save"
            /\ UNCHANGED logExc
    /\ UNCHANGED <<file, files, logDf, logTrue, logFalse, logOut, linVars>>

LogSave ==
    /\ logPc = "save"
    /\ logFig' = [logFig EXCEPT !.yscale = "log",
                                !.ylabel = "Throughput (txns/sec) - Log Scale",
                                !.grid = "both"]
    /\ files' = files \cup {"linegraph_log.png"}
    /\ logOut' = Append(logOut, <<"Graph saved to ", "linegraph_log.png">>)
    /\ logPc' = "returned"
    /\ UNCHANGED <<file, logDf, logTrue, logFalse, logExc, linVars>>

-----------------------------------------------------------------------------

Next ==
    \/ LinLoad \/ LinMetric \/ LinPartition \/ LinPlot \/ LinSave
    \/ LogLoad \/ LogMetric \/ LogPartition \/ LogPlot \/ LogSave

Spec == Init /\ [][Next]_vars

-----------------------------------------------------------------------------
(* Properties *)

LinSuccess == <<"Line graph saved to ", "linegraph.png">>
LogSuccess == <<"Graph saved to ", "linegraph_log.png">>

ValidCsv == file.kind = "csv" /\ file.header = Columns

HeaderOnly == ValidCsv /\ Len(file.rows) = 0

StrictlyIncreasing(s) == \A i, j \in DOMAIN s : i < j => s[i] < s[j]

\* C1: in both scripts, once the throughput column is assigned, every record
\* with elapsed_ms > 0 carries throughput = num_txns * 1000 / elapsed_ms of
\* its own fields; (100, 50) and (200, 100) both give 2000.
ThroughputOk(df) ==
    \A i \in DOMAIN df.rows :
        LET r == df.rows[i]
        IN  r.elapsed_ms > 0 =>
              /\ r.throughput.kind = "finite"
              /\ r.throughput.den > 0
              /\ r.throughput.num * r.elapsed_ms = r.num_txns * 1000 * r.throughput.den
              /\ (<<r.num_txns, r.elapsed_ms>> \in {<<100, 50>>, <<200, 100>>}
                    => r.throughput = [kind |-> "finite", num |-> 2000, den |-> 1])

C1_Throughput ==
    /\ "throughput" \in linDf.cols => ThroughputOk(linDf)
    /\ "throughput" \in logDf.cols => ThroughputOk(logDf)

HasExampleRows(df) ==
    /\ "throughput" \in df.cols
    /\ Len(df.rows) = 2
    /\ df.rows[1].num_txns = 100 /\ df.rows[1].elapsed_ms = 50
    /\ df.rows[2].num_txns = 200 /\ df.rows[2].elapsed_ms = 100
    /\ df.rows[1].throughput = df.rows[2].throughput

C1_Witness == HasExampleRows(linDf) /\ HasExampleRows(logDf)

\* C2: in both scripts, df_true and df_false are a disjoint, complete,
\* order-preserving partition of the table: every record is in exactly the
\* partition of its coerced verified value, the lengths add up, and each
\* partition lists its records in table order.
IsPartition(df, t, f) ==
    /\ Len(t.rows) + Len(f.rows) = Len(df.rows)
    /\ StrictlyIncreasing(t.index) /\ StrictlyIncreasing(f.index)
    /\ Range(t.index) \cap Range(f.index) = {}
    /\ \A j \in DOMAIN t.rows : t.rows[j].verified = TRUE
    /\ \A j \in DOMAIN f.rows : f.rows[j].verified = FALSE
    /\ \A i \in DOMAIN df.rows :
          LET part == IF df.rows[i].verified THEN t ELSE f
          IN  \E j \in DOMAIN part.rows :
                 /\ part.index[j] = df.index[i]
                 /\ part.rows[j] = df.rows[i]

C2_Partition ==
    /\ linFig.opened => IsPartition(linDf, linTrue, linFalse)
    /\ logFig.opened => IsPartition(logDf, logTrue, logFalse)

C2_Witness ==
    /\ linFig.opened /\ logFig.opened
    /\ Len(linTrue.rows) = 1 /\ Len(linFalse.rows) = 1
    /\ Len(logTrue.rows) = 1 /\ Len(logFalse.rows) = 1

\* C3: in both scripts, when the input file does not exist the run prints the
\* file-not-found message and returns normally; it never gets past the load
\* step, writes no output file and prints no success message.
C3_MissingFile ==
    file.kind = "absent" =>
        /\ linPc \in {"load", "returned"} /\ logPc \in {"load", "returned"}
        /\ linOut = (IF linPc = "returned" THEN <<NotFoundMessage>> ELSE << >>)
        /\ logOut = (IF logPc = "returned" THEN <<NotFoundMessage>> ELSE << >>)
        /\ ~linFig.opened /\ ~logFig.opened
        /\ files = {}

C3_Witness ==
    /\ file.kind = "absent"
    /\ linPc = "returned" /\ logPc = "returned"
    /\ linOut = <<NotFoundMessage>> /\ logOut = <<NotFoundMessage>>

\* C4: in both scripts, a failure other than a missing file (an empty or
\* malformed file, a missing column) is caught: the run never ends on an
\* uncaught exception, it prints one message carrying the exception's text,
\* and it writes no output file.
FailingInput == file.kind \in {"empty", "malformed"} \/ (file.kind = "csv" /\ file.header # Columns)

FailureTexts == {"No columns to parse from file", "Error tokenizing data"} \cup Columns

C4_AllFailuresCaught ==
    /\ linPc # "crashed" /\ logPc # "crashed"
    /\ FailingInput =>
          /\ files = {}
          /\ linPc = "returned" =>
                \E t \in FailureTexts : linOut = << <<"An error occurred: ", t>> >>
          /\ logPc = "returned" =>
                \E t \in FailureTexts : logOut = << <<"An error occurred: ", t>> >>

\* C5: on the same input the two scripts plot identical series: for each of the
\* two partitions the X and Y sequences are equal; the finished runs differ in
\* the Y scale (linear, log) and the output file (linegraph.png,
\* linegraph_log.png).
C5_SameSeries ==
    /\ (Len(linFig.lines) = 2 /\ Len(logFig.lines) = 2) =>
          \A j \in 1..2 :
             /\ linFig.lines[j].label = logFig.lines[j].label
             /\ linFig.lines[j].x = logFig.lines[j].x
             /\ linFig.lines[j].y = logFig.lines[j].y
    /\ (linPc = "returned" /\ Len(linFig.lines) = 2) =>
          linFig.yscale = "linear" /\ "linegraph.png" \in files
    /\ (logPc = "returned" /\ Len(logFig.lines) = 2) =>
          logFig.yscale = "log" /\ "linegraph_log.png" \in files

C5_Witness ==
    /\ linPc = "returned" /\ logPc = "returned"
    /\ Len(linFig.lines) = 2 /\ Len(logFig.lines) = 2
    /\ Len(linFig.lines[1].x) = 1 /\ Len(logFig.lines[2].x) = 1
    /\ files = {"linegraph.png", "linegraph_log.png"}

\* C6: in both scripts the coerced verified value of every record follows the
\* stated rule on its raw cell: non-zero numbers and "true" (any case) are
\* true; "false", 0 and the empty cell are false.
ClaimedBool(raw) ==
    CASE raw \in DOMAIN IntOf -> IntOf[raw] # 0
      [] raw \in TrueValues -> TRUE
      [] OTHER -> FALSE

CoercedAsClaimed(df) ==
    (ValidCsv /\ {"throughput", "verified"} \subseteq df.cols) =>
        \A i \in DOMAIN df.rows : df.rows[i].verified = ClaimedBool(file.rows[i].verified)

C6_Coercion == CoercedAsClaimed(linDf) /\ CoercedAsClaimed(logDf)

\* C7: given a file with the header and no data rows, in both scripts both
\* partitions are empty, no error is printed or raised, and the finished run
\* has plotted two empty series, written its output file and printed the
\* success message.
C7_HeaderOnly ==
    HeaderOnly =>
        /\ linPc # "crashed" /\ logPc # "crashed"
        /\ linOut = (IF linPc = "returned" THEN <<LinSuccess>> ELSE << >>)
        /\ logOut = (IF logPc = "returned" THEN <<LogSuccess>> ELSE << >>)
        /\ Len(linTrue.rows) = 0 /\ Len(linFalse.rows) = 0
        /\ Len(logTrue.rows) = 0 /\ Len(logFalse.rows) = 0
        /\ linPc = "returned" =>
              /\ "linegraph.png" \in files
              /\ Len(linFig.lines) = 2
              /\ \A j \in 1..2 : linFig.lines[j].x = << >> /\ linFig.lines[j].y = << >>
        /\ logPc = "returned" =>
              /\ "linegraph_log.png" \in files
              /\ Len(logFig.lines) = 2
              /\ \A j \in 1..2 : logFig.lines[j].x = << >> /\ logFig.lines[j].y = << >>

C7_Witness ==
    /\ HeaderOnly
    /\ linPc = "returned" /\ logPc = "returned"
    /\ files = {"linegraph.png", "linegraph_log.png"}

\* C8: each plotted series lists its partition's points in table order: the
\* i-th plotted point is the i-th record of the partition, whatever the order
\* of the num_keys values.
PlotsPartition(line, part) ==
    /\ Len(line.x) = Len(part.rows) /\ Len(line.y) = Len(part.rows)
    /\ \A i \in DOMAIN part.rows :
          /\ line.x[i] = part.rows[i].num_keys
          /\ line.y[i] = part.rows[i].throughput

C8_TableOrder ==
    /\ Len(linFig.lines) = 2 =>
          PlotsPartition(linFig.lines[1], linTrue) /\ PlotsPartition(linFig.lines[2], linFalse)
    /\ Len(logFig.lines) = 2 =>
          PlotsPartition(logFig.lines[1], logTrue) /\ PlotsPartition(logFig.lines[2], logFalse)

Descending(xs) == Len(xs) = 2 /\ xs[1] > xs[2]

C8_Witness ==
    /\ Len(linFig.lines) = 2 /\ Len(logFig.lines) = 2
    /\ Descending(linFig.lines[1].x)
    /\ Descending(logFig.lines[1].x)

\* C9: in both scripts a record with elapsed_ms = 0 is neither rejected nor
\* filtered and raises nothing: it keeps its place in the table with a
\* non-finite throughput, is in its partition, is handed to the renderer, and
\* the finished run has written its output file.
ZeroRows == { i \in DOMAIN file.rows : file.rows[i].elapsed_ms = 0 }

NonFinitePoints(fig) ==
    { <<j, i>> \in (1..2) \X (1..Len(file.rows)) :
        /\ i \in DOMAIN fig.lines[j].y
        /\ fig.lines[j].y[i].kind # "finite" }

ZeroKept(pc, df, t, f, fig, out, success, png) ==
    /\ pc # "crashed"
    /\ out = (IF pc = "returned" THEN <<success>> ELSE << >>)
    /\ "throughput" \in df.cols =>
          /\ Len(df.rows) = Len(file.rows)
          /\ \A i \in ZeroRows :
                df.rows[i].elapsed_ms = 0 /\ df.rows[i].throughput.kind \in {"inf", "nan"}
    /\ fig.opened =>
          \A i \in ZeroRows : df.index[i] \in Range(t.index) \cup Range(f.index)
    /\ Len(fig.lines) = 2 =>
          Cardinality(NonFinitePoints(fig)) = Cardinality(ZeroRows)
    /\ pc = "returned" => png \in files

C9_ZeroElapsed ==
    (ValidCsv /\ ZeroRows # {}) =>
        /\ ZeroKept(linPc, linDf, linTrue, linFalse, linFig, linOut, LinSuccess, "linegraph.png")
        /\ ZeroKept(logPc, logDf, logTrue, logFalse, logFig, logOut, LogSuccess, "linegraph_log.png")

C9_Witness ==
    /\ ValidCsv /\ ZeroRows # {}
    /\ linPc = "returned" /\ logPc = "returned"
    /\ NonFinitePoints(linFig) # {} /\ NonFinitePoints(logFig) # {}
    /\ files = {"linegraph.png", "linegraph_log.png"}

\* C10: the metric step changes nothing but the new column and the coerced
\* verified: afterwards the table has the loaded table's records in the same
\* order with the same index, and num_txns, elapsed_ms and num_keys of every
\* record are the loaded values.
FrameKept(df, loaded) ==
    /\ df.cols = loaded.cols \cup {"throughput"}
    /\ df.index = loaded.index
    /\ Len(df.rows) = Len(loaded.rows)
    /\ \A i \in DOMAIN loaded.rows :
          /\ \A c \in loaded.cols \ {"verified"} : df.rows[i][c] = loaded.rows[i][c]
          /\ "verified" \in loaded.cols => df.rows[i].verified \in BOOLEAN

C10_MetricFrame ==
    /\ "throughput" \in linDf.cols => FrameKept(linDf, ReadCsv(file))
    /\ "throughput" \in logDf.cols => FrameKept(logDf, ReadCsv(file))

C10_Witness ==
    /\ linPc = "returned" /\ logPc = "returned"
    /\ "throughput" \in linDf.cols /\ "throughput" \in logDf.cols
    /\ Len(linDf.rows) = 2 /\ Len(logDf.rows) = 2
    /\ \E i \in DOMAIN file.rows : file.rows[i].elapsed_ms = 0

====
